---- MODULE Spec2Model ----
(***************************************************************************)
(* A model of lsst-cst's build and release machinery and of the two        *)
(* conversion helpers its notebooks exercise:                              *)
(*   - the "Testing and Building" GitHub Actions workflow                  *)
(*     (.github/workflows/testing_and_building.yaml): its triggers, its    *)
(*     four jobs and the steps of the docs job;                            *)
(*   - the Makefile targets clean, init and linkcheck acting on the        *)
(*     working tree;                                                       *)
(*   - lsst.cst.conversions.psf_size_at_pixel_xy and                       *)
(*     nearest_patch_from_ra_dec as called from the notebooks.             *)
(* Each part has a specification of its own (SpecRun, SpecRepo, SpecMake,  *)
(* SpecConv); the variables of the other parts stay at their idle values.  *)
(***************************************************************************)
EXTENDS Integers, Sequences, FiniteSets, TLC

VARIABLES
    event,      \* the event that triggered the workflow run
    job,        \* status of each job of the run
    docsPc,     \* index of the next step of the docs job
    docsOk,     \* whether every docs step executed so far succeeded
    upload,     \* what became of the "Upload to LSST the Docs" step
    branch,     \* repository: the branch followed
    head,       \* repository: number of the branch's head commit (0: no commit yet)
    openPR,     \* repository: bases of the open pull requests from the branch
    closedPR,   \* repository: bases of the closed pull requests from the branch
    runs,       \* repository: workflow runs of the head commit, per event name
    last,       \* repository: the last operation and the runs it triggered
    tree,       \* working tree: state of each path
    made,       \* the last make target run, its exit status and what it printed
    call        \* the last conversion helper call and its outcome

varsRun  == <<event, job, docsPc, docsOk, upload>>
varsRepo == <<branch, head, openPR, closedPR, runs, last>>
varsMake == <<tree, made>>
varsConv == <<call>>
notRun   == <<varsRepo, varsMake, varsConv>>
notRepo  == <<varsRun, varsMake, varsConv>>
notMake  == <<varsRun, varsRepo, varsConv>>
notConv  == <<varsRun, varsRepo, varsMake>>
vars     == <<event, job, docsPc, docsOk, upload, branch, head, openPR, closedPR,
              runs, last, tree, made, call>>

(***************************************************************************)
(* Branch names.  A name is the sequence of its "/"-separated segments.    *)
(***************************************************************************)
Branches ==
    { <<"main">>, <<"feature">>, <<"tickets">>,
      <<"tickets", "DM-1">>, <<"Tickets", "DM-2">>, <<"u", "someone", "fix">>,
      <<"dependabot", "pip", "astropy">>, <<"renovate", "bokeh">>,
      <<"gh-readonly-queue", "main", "pr-7">> }

NoRef == <<>>

\* on.push.branches-ignore: the patterns, "**" matching any run of characters.
BranchesIgnoreWithoutU ==
    { <<"dependabot", "**">>, <<"gh-readonly-queue", "**">>,
      <<"renovate", "**">>, <<"tickets", "**">> }

BranchesIgnore ==
    { <<"dependabot", "**">>, <<"gh-readonly-queue", "**">>,
      <<"renovate", "**">>, <<"tickets", "**">>, <<"u", "**">> }

\* Glob match of a filter pattern against a ref name (case sensitive).  After
\* "prefix/" the wildcard "**" takes the rest of the name, at least one segment.
RECURSIVE GlobMatch(_, _)
GlobMatch(pat, name) ==
    IF pat = <<>> THEN name = <<>>
    ELSE IF Head(pat) = "**"
         THEN \E k \in 1..Len(name) :
                  GlobMatch(Tail(pat), SubSeq(name, k + 1, Len(name)))
         ELSE /\ name # <<>>
              /\ Head(name) = Head(pat)
              /\ GlobMatch(Tail(pat), Tail(name))

PushIgnored(ref) == \E pat \in BranchesIgnore : GlobMatch(pat, ref)

\* Lower-casing, as the expression functions compare: of the segments used here
\* only "Tickets" has an upper-case letter.
Lower(seg) == IF seg = "Tickets" THEN "tickets" ELSE seg

\* startsWith(ref, 'tickets/') of the workflow expression language: not case
\* sensitive; the prefix ends in "/", so a further segment must follow.
StartsWithTickets(ref) ==
    /\ Len(ref) >= 2
    /\ Lower(ref[1]) = "tickets"

(***************************************************************************)
(* Events.  head_ref is set for pull_request events only.                  *)
(***************************************************************************)
Ev(name, action, ref, headRef, fork, tag) ==
    [name |-> name, action |-> action, ref |-> ref, head_ref |-> headRef,
     fork |-> fork, tag |-> tag]

AllEvents ==
    {Ev("merge_group", "checks_requested", <<"gh-readonly-queue", "main", "pr-7">>,
        NoRef, FALSE, FALSE)}
    \cup {Ev("pull_request", a, <<"main">>, b, f, FALSE) :
            a \in {"opened", "synchronize", "reopened", "closed"},
            b \in Branches \ {<<"main">>, <<"gh-readonly-queue", "main", "pr-7">>},
            f \in BOOLEAN}
    \cup {Ev("push", "none", b, NoRef, FALSE, FALSE) : b \in Branches}
    \cup {Ev("push", "none", <<"v1.0.0">>, NoRef, FALSE, TRUE)}
    \cup {Ev("release", a, <<"v1.0.0">>, NoRef, FALSE, TRUE) :
            a \in {"created", "published", "edited"}}
    \cup {Ev("schedule", "none", <<"main">>, NoRef, FALSE, FALSE)}

\* The "on:" block: which events start a run of the workflow.
Triggers(e) ==
    CASE e.name = "merge_group"  -> TRUE
      [] e.name = "pull_request" -> e.action \in {"opened", "synchronize", "reopened"}
      [] e.name = "push"         -> ~e.tag /\ ~PushIgnored(e.ref)
      [] e.name = "release"      -> e.action \in {"published"}
      [] OTHER                   -> FALSE

(***************************************************************************)
(* One run of the workflow: jobs test, docs, test-packaging and pypi.      *)
(***************************************************************************)
JobNames == {"test", "docs", "test-packaging", "pypi"}

Completed == {"success", "failure", "cancelled", "skipped"}

\* jobs.pypi.needs with one job left out.
PypiNeedsWithoutPackaging == {"test", "docs"}

\* jobs.pypi.needs
PypiNeeds == {"test", "docs", "test-packaging"}

\* jobs.pypi.if
PypiIf(e) == e.name = "release" /\ e.action = "published"

\* The steps of the docs job, in order.
DocsSteps == <<"checkout", "graphviz", "tox", "upload">>

\* The "if:" of the step "Upload to LSST the Docs".
UploadIf(e) ==
    /\ e.name # "merge_group"
    /\ (e.name # "pull_request" \/ StartsWithTickets(e.head_ref))

\* Steps without an "if:" of their own.
StepIf(s, e) == IF s = "upload" THEN UploadIf(e) ELSE TRUE

IdleRun ==
    /\ event = Ev("none", "none", NoRef, NoRef, FALSE, FALSE)
    /\ job = [j \in JobNames |-> "pending"]
    /\ docsPc = 1
    /\ docsOk = TRUE
    /\ upload = "pending"

\* A run exists for every event the "on:" block lets through.
InitRunVars ==
    /\ event \in {e \in AllEvents : Triggers(e)}
    /\ job = [j \in JobNames |-> "pending"]
    /\ docsPc = 1
    /\ docsOk = TRUE
    /\ upload = "pending"

\* A job without "needs" is picked up by a runner.
StartJob(j) ==
    /\ j \in {"test", "docs", "test-packaging"}
    /\ job[j] = "pending"
    /\ job' = [job EXCEPT ![j] = "running"]
    /\ UNCHANGED <<event, docsPc, docsOk, upload>>
    /\ UNCHANGED notRun

\* test (checkout, git lfs, tox py) and test-packaging (checkout, build with
\* upload: false) end in success or failure; a timeout is a failure.
FinishJob(j, ok) ==
    /\ j \in {"test", "test-packaging"}
    /\ job[j] = "running"
    /\ job' = [job EXCEPT ![j] = IF ok THEN "success" ELSE "failure"]
    /\ UNCHANGED <<event, docsPc, docsOk, upload>>
    /\ UNCHANGED notRun

\* The runner takes the next step of the docs job.  A step runs when every
\* earlier step succeeded (the implied success()) and its own "if:" holds;
\* otherwise it is skipped.  The upload needs the LTD secrets, which a run
\* for a pull request from a fork does not get.  After the last step the job
\* ends.
DocsStep(ok) ==
    /\ job["docs"] = "running"
    /\ docsPc <= Len(DocsSteps)
    /\ LET s       == DocsSteps[docsPc]
           runs_it == docsOk /\ StepIf(s, event)
           okNow   == IF runs_it
                      THEN docsOk /\ ok /\ ~(s = "upload" /\ event.fork)
                      ELSE docsOk
       IN /\ docsOk' = okNow
          /\ upload' = IF s = "upload"
                       THEN (IF runs_it THEN "attempted" ELSE "skipped")
                       ELSE upload
          /\ docsPc' = docsPc + 1
          /\ job' = IF docsPc = Len(DocsSteps)
                    THEN [job EXCEPT !["docs"] =
                              IF okNow THEN "success" ELSE "failure"]
                    ELSE job
    /\ UNCHANGED event
    /\ UNCHANGED notRun

\* pypi is decided when every job it needs has completed: it starts when all
\* of them succeeded (the implied success()) and its "if:" holds, and is
\* skipped otherwise.
EvaluatePypi ==
    /\ job["pypi"] = "pending"
    /\ \A j \in PypiNeeds : job[j] \in Completed
    /\ job' = [job EXCEPT !["pypi"] =
                  IF (\A j \in PypiNeeds : job[j] = "success") /\ PypiIf(event)
                  THEN "running" ELSE "skipped"]
    /\ UNCHANGED <<event, docsPc, docsOk, upload>>
    /\ UNCHANGED notRun

\* "Build and publish" of the pypi job ends.
FinishPypi(ok) ==
    /\ job["pypi"] = "running"
    /\ job' = [job EXCEPT !["pypi"] = IF ok THEN "success" ELSE "failure"]
    /\ UNCHANGED <<event, docsPc, docsOk, upload>>
    /\ UNCHANGED notRun

\* The run is cancelled: jobs not yet completed end cancelled, and the steps
\* the docs job has not reached are not run.
CancelRun ==
    /\ \E j \in JobNames : job[j] \notin Completed
    /\ job' = [j \in JobNames |-> IF job[j] \in Completed THEN job[j] ELSE "cancelled"]
    /\ upload' = IF upload = "pending" THEN "skipped" ELSE upload
    /\ docsPc' = Len(DocsSteps) + 1
    /\ UNCHANGED <<event, docsOk>>
    /\ UNCHANGED notRun

(***************************************************************************)
(* The repository: pushes and pull requests of one branch, and the runs of *)
(* the workflow they trigger for the branch's head commit.                 *)
(***************************************************************************)
MaxCommits == 2
MaxRuns == 3

QueueBranch == <<"gh-readonly-queue", "main", "pr-7">>

\* The branches pull requests are made into.
Bases == {<<"main">>, <<"feature">>}

NoRuns == [push |-> 0, pull_request |-> 0, merge_group |-> 0]

\* 1 when the "on:" block starts a run for the event, 0 when it does not.
RunsFor(e) == IF Triggers(e) THEN 1 ELSE 0

PushEvent(b) == Ev("push", "none", b, NoRef, FALSE, FALSE)
PREvent(b, base, action) == Ev("pull_request", action, base, b, FALSE, FALSE)
QueueEvent(b) == Ev("merge_group", "checks_requested", b, NoRef, FALSE, FALSE)

Op(name, triggered) ==
    [op |-> name, prs |-> Cardinality(openPR), push |-> triggered.push,
     pull_request |-> triggered.pull_request, merge_group |-> triggered.merge_group]

IdleRepo ==
    /\ branch = <<"main">>
    /\ head = 0
    /\ openPR = {}
    /\ closedPR = {}
    /\ runs = NoRuns
    /\ last = [op |-> "none", prs |-> 0, push |-> 0, pull_request |-> 0,
               merge_group |-> 0]

InitRepoVars ==
    /\ branch \in Branches
    /\ head = 0
    /\ openPR = {}
    /\ closedPR = {}
    /\ runs = NoRuns
    /\ last = [op |-> "none", prs |-> 0, push |-> 0, pull_request |-> 0,
               merge_group |-> 0]

\* A commit is pushed to the branch: a push event, and a pull_request
\* (synchronize) event for every open pull request with this head branch.
Push ==
    /\ branch # QueueBranch
    /\ head < MaxCommits
    /\ LET synced == {base \in openPR :
                         Triggers(PREvent(branch, base, "synchronize"))}
           triggered == [push         |-> RunsFor(PushEvent(branch)),
                         pull_request |-> Cardinality(synced),
                         merge_group  |-> 0]
       IN /\ runs' = triggered
          /\ last' = Op("push", triggered)
    /\ head' = head + 1
    /\ UNCHANGED <<branch, openPR, closedPR>>
    /\ UNCHANGED notRepo

\* The merge queue creates its branch: a push event and a merge_group event.
MergeQueue ==
    /\ branch = QueueBranch
    /\ head < MaxCommits
    /\ LET triggered == [push         |-> RunsFor(PushEvent(branch)),
                         pull_request |-> 0,
                         merge_group  |-> RunsFor(QueueEvent(branch))]
       IN /\ runs' = triggered
          /\ last' = Op("queue", triggered)
    /\ head' = head + 1
    /\ UNCHANGED <<branch, openPR, closedPR>>
    /\ UNCHANGED notRepo

\* A pull request event of the given action for the head commit.
PullRequestRuns(name, base, action) ==
    LET triggered == [NoRuns EXCEPT
                         !.pull_request = RunsFor(PREvent(branch, base, action))]
    IN /\ runs' = [runs EXCEPT !.pull_request = @ + triggered.pull_request]
       /\ last' = Op(name, triggered)

\* A pull request from the branch into base is opened.
OpenPR(base) ==
    /\ branch # QueueBranch
    /\ base # branch
    /\ head > 0
    /\ base \notin openPR \cup closedPR
    /\ runs.pull_request < MaxRuns
    /\ openPR' = openPR \cup {base}
    /\ PullRequestRuns("open", base, "opened")
    /\ UNCHANGED <<branch, head, closedPR>>
    /\ UNCHANGED notRepo

\* The pull request into base is closed.
ClosePR(base) ==
    /\ base \in openPR
    /\ openPR' = openPR \ {base}
    /\ closedPR' = closedPR \cup {base}
    /\ PullRequestRuns("close", base, "closed")
    /\ UNCHANGED <<branch, head>>
    /\ UNCHANGED notRepo

\* The closed pull request into base is reopened.
ReopenPR(base) ==
    /\ base \in closedPR
    /\ runs.pull_request < MaxRuns
    /\ openPR' = openPR \cup {base}
    /\ closedPR' = closedPR \ {base}
    /\ PullRequestRuns("reopen", base, "reopened")
    /\ UNCHANGED <<branch, head>>
    /\ UNCHANGED notRepo

(***************************************************************************)
(* The working tree and the Makefile targets.  A path is the sequence of   *)
(* its segments; tree maps each path to "absent" or to its content.        *)
(***************************************************************************)
\* The files of the repository.
SourceFiles ==
    { <<"Makefile">>, <<"pyproject.toml">>, <<"docs", "index.rst">>,
      <<"docs", "api", "index.rst">>,
      <<"notebooks", "image_data_visualization.ipynb">>,
      <<".github", "workflows", "testing_and_building.yaml">> }

OutputTxt == <<"docs", "_build", "linkcheck", "output.txt">>
HtmlIndex == <<"docs", "_build", "html", "index.html">>
ToxEnv    == <<".tox", "docs", "pyvenv.cfg">>
HookFile  == <<".git", "hooks", "pre-commit">>

\* Files that tools write into the tree.
GeneratedFiles == {OutputTxt, HtmlIndex, ToxEnv, HookFile}

Paths == SourceFiles \cup GeneratedFiles

IsPrefix(dir, p) == Len(dir) <= Len(p) /\ SubSeq(p, 1, Len(dir)) = dir

\* rm -rf dir: nothing at or under dir is left; a missing dir is no error.
RmRf(t, dir) == [p \in Paths |-> IF IsPrefix(dir, p) THEN "absent" ELSE t[p]]

\* The directories the clean recipe removes, in order.
CleanDirs == << <<".tox">>, <<"docs", "_build">>, <<"docs", "api">> >>

RECURSIVE RmRfAll(_, _)
RmRfAll(t, dirs) ==
    IF dirs = <<>> THEN t ELSE RmRfAll(RmRf(t, Head(dirs)), Tail(dirs))

\* What running a command left: the target, the exit status of sphinx-build
\* (linkcheck only), the status of the recipe's shell line that ended the
\* target, make's own exit status, and what was printed on standard output.
Made(target, sphinx, status, printed) ==
    [target |-> target, sphinx |-> sphinx, status |-> status,
     exit |-> IF status = 0 THEN 0 ELSE 2, printed |-> printed]

CheckedOut ==
    [p \in Paths |-> IF p \in SourceFiles THEN "committed" ELSE "absent"]

IdleMake ==
    /\ tree = CheckedOut
    /\ made = Made("none", 0, 0, <<>>)

InitMakeVars ==
    /\ tree = CheckedOut
    /\ made = Made("none", 0, 0, <<>>)

\* A developer edits a file of the repository.
Edit(p) ==
    /\ p \in SourceFiles
    /\ tree[p] = "committed"
    /\ tree' = [tree EXCEPT ![p] = "edited"]
    /\ made' = Made("edit", 0, 0, <<>>)
    /\ UNCHANGED notMake

\* actions/checkout (git checkout): the files of the repository are as committed.
Checkout ==
    /\ tree' = [p \in Paths |-> IF p \in SourceFiles THEN "committed" ELSE tree[p]]
    /\ made' = Made("checkout", 0, 0, <<>>)
    /\ UNCHANGED notMake

\* tox -e docs: the tox environment and the HTML build in docs/_build/html.
ToxDocs ==
    /\ tree' = [tree EXCEPT ![ToxEnv] = "built", ![HtmlIndex] = "built"]
    /\ made' = Made("tox", 0, 0, <<>>)
    /\ UNCHANGED notMake

\* make clean
Clean ==
    /\ tree' = RmRfAll(tree, CleanDirs)
    /\ made' = Made("clean", 0, 0, <<>>)
    /\ UNCHANGED notMake

\* make init: three installing commands, any of which may fail and stop the
\* recipe (failAt is the failing line, 0 for none), then rm -rf .tox.
MakeInit(failAt) ==
    /\ failAt \in 0..3
    /\ tree' = IF failAt = 0
               THEN RmRf([tree EXCEPT ![HookFile] = "installed"], <<".tox">>)
               ELSE tree
    /\ made' = Made("init", 0, IF failAt = 0 THEN 0 ELSE 1, <<>>)
    /\ UNCHANGED notMake

\* Status of "(cat ...; exit 1)" had the "exit 1" been left out: that of cat.
FallbackStatusOfCat(catStatus) == catStatus

\* Status of the subshell "(cat docs/_build/linkcheck/output.txt; exit 1)".
FallbackStatus(catStatus) == 1

\* Status of "A || B": B runs only when A failed.
OrElse(statusA, statusB) == IF statusA = 0 THEN 0 ELSE statusB

\* make linkcheck.  sphinx-build ends "ok" (status 0, output.txt written),
\* "broken" (broken links: status 1, output.txt lists them) or "crash" (it
\* fails before the builder writes: status 2, output.txt as it was).
Linkcheck(outcome) ==
    /\ outcome \in {"ok", "broken", "crash"}
    /\ LET sphinx  == CASE outcome = "ok" -> 0 [] outcome = "broken" -> 1 [] OTHER -> 2
           written == CASE outcome = "ok"     -> [tree EXCEPT ![OutputTxt] = "no broken links"]
                        [] outcome = "broken" -> [tree EXCEPT ![OutputTxt] = "broken links"]
                        [] OTHER              -> tree
           catRuns == sphinx # 0
           catStat == IF written[OutputTxt] = "absent" THEN 1 ELSE 0
           printed == IF catRuns /\ catStat = 0 THEN <<written[OutputTxt]>> ELSE <<>>
       IN /\ tree' = written
          /\ made' = Made("linkcheck", sphinx,
                          OrElse(sphinx, FallbackStatus(catStat)), printed)
    /\ UNCHANGED notMake

(***************************************************************************)
(* lsst.cst.conversions as the notebooks call it.  The bodies of the two   *)
(* helpers are not among the repository's files at hand; they are modelled *)
(* from the specification ("bounding-box containment checks",              *)
(* "coordinate-to-tract/patch lookup", "great-circle distance lookups")    *)
(* and from what the notebook cells say the calls do.                      *)
(***************************************************************************)
MaxPixel == 3

Failure == [ok |-> FALSE]

Pixels == 0..MaxPixel

\* Integer boxes with inclusive corners, as getBBox() returns them.
Boxes ==
    {[minX |-> a, minY |-> b, maxX |-> c, maxY |-> d] :
        a \in Pixels, b \in Pixels, c \in Pixels, d \in Pixels}
    \ {bx \in [minX : Pixels, minY : Pixels, maxX : Pixels, maxY : Pixels] :
        bx.minX > bx.maxX \/ bx.minY > bx.maxY}

\* PSF models: a size at the reference pixel and its growth along x.
Psfs == {[base |-> 2, slope |-> 0], [base |-> 3, slope |-> 1]}

\* The containment check with the y axis forgotten.
BoxContainsXOnly(bbox, xy) == bbox.minX <= xy[1] /\ xy[1] <= bbox.maxX

\* bbox.contains(point)
BoxContains(bbox, xy) ==
    /\ bbox.minX <= xy[1] /\ xy[1] <= bbox.maxX
    /\ bbox.minY <= xy[2] /\ xy[2] <= bbox.maxY

\* The PSF's size at a pixel.
PsfSize(psf, xy) == psf.base + psf.slope * xy[1]

\* psf_size_at_pixel_xy(psf, bbox, xy)
PsfSizeAtPixelXY(psf, bbox, xy) ==
    IF BoxContains(bbox, xy)
    THEN [ok |-> TRUE, size |-> PsfSize(psf, xy)]
    ELSE Failure

\* The sky, in whole degrees, and the tessellation: tracts side by side in
\* right ascension, each cut into patches in declination, all in the south.
\* Neighbouring patches share their border.
SkyRa  == 0..13
SkyDec == -10..3

PatchWidth == 4
EdgeMargin == 1

Patches ==
    {[tract |-> t, patch |-> q,
      raMin  |-> PatchWidth * t,       raMax  |-> PatchWidth * t + PatchWidth,
      decMin |-> PatchWidth * q - 9,   decMax |-> PatchWidth * q - 9 + PatchWidth] :
        t \in 0..2, q \in 0..1}

PatchContains(p, ra, dec) ==
    /\ p.raMin <= ra /\ ra <= p.raMax
    /\ p.decMin <= dec /\ dec <= p.decMax

\* Twice the patch centre, to stay in whole numbers.
Centre2(p) == <<p.raMin + p.raMax, p.decMin + p.decMax>>

\* Squared distance (in half degrees) from a coordinate to a patch centre.
Distance2(p, ra, dec) ==
    LET c == Centre2(p)
    IN (2 * ra - c[1]) * (2 * ra - c[1]) + (2 * dec - c[2]) * (2 * dec - c[2])

Min2(a, b) == IF a <= b THEN a ELSE b

\* The distance to the border measured in right ascension only.
EdgeDistanceRaOnly(p, ra, dec) == Min2(ra - p.raMin, p.raMax - ra)

\* How far inside the patch's border the coordinate lies.
EdgeDistance(p, ra, dec) ==
    Min2(Min2(ra - p.raMin, p.raMax - ra), Min2(dec - p.decMin, p.decMax - dec))

\* The lookup returning the first patch that holds the coordinate or, when
\* none does, the nearest patch of all.
NearestPatchOfAll(ra, dec) ==
    LET key(p) == <<Distance2(p, ra, dec), p.tract, p.patch>>
        less(k1, k2) ==
            \/ k1[1] < k2[1]
            \/ k1[1] = k2[1] /\ k1[2] < k2[2]
            \/ k1[1] = k2[1] /\ k1[2] = k2[2] /\ k1[3] < k2[3]
        best == CHOOSE p \in Patches :
                    \A q \in Patches \ {p} : less(key(p), key(q))
    IN [result |-> [ok |-> TRUE, tract |-> best.tract, patch |-> best.patch],
        warned |-> FALSE]

\* nearest_patch_from_ra_dec(ra, dec): among the patches that hold the
\* coordinate the one whose centre is nearest (the lower tract, then patch,
\* on a tie); a warning when the coordinate is within EdgeMargin of that
\* patch's border; failure when no patch holds the coordinate.
NearestPatchFromRaDec(ra, dec) ==
    LET holding == {p \in Patches : PatchContains(p, ra, dec)}
        key(p) == <<Distance2(p, ra, dec), p.tract, p.patch>>
        less(k1, k2) ==
            \/ k1[1] < k2[1]
            \/ k1[1] = k2[1] /\ k1[2] < k2[2]
            \/ k1[1] = k2[1] /\ k1[2] = k2[2] /\ k1[3] < k2[3]
    IN IF holding = {}
       THEN [result |-> Failure, warned |-> FALSE]
       ELSE LET best == CHOOSE p \in holding :
                            \A q \in holding \ {p} : less(key(p), key(q))
            IN [result |-> [ok |-> TRUE, tract |-> best.tract, patch |-> best.patch],
                warned |-> EdgeDistance(best, ra, dec) < EdgeMargin]

Called(fn, args) ==
    [fn |-> fn, args |-> args, state |-> "called", result |-> Failure,
     warned |-> FALSE]

IdleConv ==
    call = [fn |-> "none", args |-> <<>>, state |-> "idle", result |-> Failure,
            warned |-> FALSE]

\* A notebook cell calls one of the helpers with its arguments:
\* psf_size_at_pixel_xy(exposure.getPsf(), exposure.getBBox(), xy) or
\* nearest_patch_from_ra_dec(ra, dec).
InitConvVars ==
    call \in {Called("psf_size_at_pixel_xy", <<psf, bbox, <<x, y>> >>) :
                 psf \in Psfs, bbox \in Boxes, x \in Pixels, y \in Pixels}
             \cup {Called("nearest_patch_from_ra_dec", <<ra, dec>>) :
                      ra \in SkyRa, dec \in SkyDec}

\* psf_size_at_pixel_xy returns or fails.
PsfSizeReturns ==
    /\ call.fn = "psf_size_at_pixel_xy"
    /\ call.state = "called"
    /\ call' = [call EXCEPT
                   !.state = "returned",
                   !.result = PsfSizeAtPixelXY(call.args[1], call.args[2], call.args[3])]
    /\ UNCHANGED notConv

\* nearest_patch_from_ra_dec returns (with or without a warning) or fails.
NearestPatchReturns ==
    /\ call.fn = "nearest_patch_from_ra_dec"
    /\ call.state = "called"
    /\ LET r == NearestPatchFromRaDec(call.args[1], call.args[2])
       IN call' = [call EXCEPT !.state = "returned", !.result = r.result,
                               !.warned = r.warned]
    /\ UNCHANGED notConv

(***************************************************************************)
(* The specifications.                                                     *)
(***************************************************************************)
InitRun  == InitRunVars /\ IdleRepo /\ IdleMake /\ IdleConv
InitRepo == IdleRun /\ InitRepoVars /\ IdleMake /\ IdleConv
InitMake == IdleRun /\ IdleRepo /\ InitMakeVars /\ IdleConv
InitConv == IdleRun /\ IdleRepo /\ IdleMake /\ InitConvVars

NextRun ==
    \/ \E j \in JobNames : StartJob(j)
    \/ \E j \in JobNames, ok \in BOOLEAN : FinishJob(j, ok)
    \/ \E ok \in BOOLEAN : DocsStep(ok)
    \/ EvaluatePypi
    \/ \E ok \in BOOLEAN : FinishPypi(ok)
    \/ CancelRun

NextRepo ==
    \/ Push
    \/ MergeQueue
    \/ \E base \in Bases : OpenPR(base)
    \/ \E base \in Bases : ClosePR(base)
    \/ \E base \in Bases : ReopenPR(base)

NextMake ==
    \/ \E p \in SourceFiles : Edit(p)
    \/ Checkout
    \/ ToxDocs
    \/ Clean
    \/ \E failAt \in 0..3 : MakeInit(failAt)
    \/ \E outcome \in {"ok", "broken", "crash"} : Linkcheck(outcome)

NextConv ==
    \/ PsfSizeReturns
    \/ NearestPatchReturns

SpecRun  == InitRun /\ [][NextRun]_vars
SpecRepo == InitRepo /\ [][NextRepo]_vars
SpecMake == InitMake /\ [][NextMake]_vars
SpecConv == InitConv /\ [][NextConv]_vars

Init == InitRun \/ InitRepo \/ InitMake \/ InitConv
Next == NextRun \/ NextRepo \/ NextMake \/ NextConv
Spec == Init /\ [][Next]_vars

(***************************************************************************)
(* The claims.                                                             *)
(***************************************************************************)

\* C1: in every run, the pypi job has started (it is running, or has ended in
\* success or failure) only if the run was triggered by a release event with
\* action "published" and the jobs test, docs and test-packaging of the run
\* have all ended in success.  A completed job keeps its status, so the upload
\* never starts before one of the three has finished or after one has failed.
C1_PypiOnlyAfterAllSucceeded ==
    job["pypi"] \in {"running", "success", "failure"} =>
        /\ event.name = "release"
        /\ event.action = "published"
        /\ job["test"] = "success"
        /\ job["docs"] = "success"
        /\ job["test-packaging"] = "success"

\* C1, the case: the pypi job is running.
C1_PypiRunning == job["pypi"] = "running"

\* C2: the step "Upload to LSST the Docs" is attempted only in a run for a
\* release, or for a pull request of the same repository whose head branch
\* starts with "tickets/"; in every other run it is skipped.
C2_UploadOnlyForReleasesAndTicketPRs ==
    upload = "attempted" =>
        \/ event.name = "release"
        \/ /\ event.name = "pull_request"
           /\ ~event.fork
           /\ Len(event.head_ref) >= 2
           /\ event.head_ref[1] = "tickets"

\* The prefixes the claim C3 lists: the name starts with one of them and "/".
HasIgnoredPrefix(ref) ==
    /\ Len(ref) >= 2
    /\ ref[1] \in {"dependabot", "gh-readonly-queue", "renovate", "tickets", "u"}

TotalRuns(r) == r.push + r.pull_request + r.merge_group

\* C3 as stated: the head commit of a branch with one of the listed prefixes
\* is never run twice and never through the push event, and is run exactly
\* once when the branch has an open pull request; the head commit of any
\* other branch has its run through the push event.
C3_NeverTwicePerCommit ==
    /\ HasIgnoredPrefix(branch) =>
          /\ runs.push = 0
          /\ TotalRuns(runs) <= 1
          /\ (openPR # {} => TotalRuns(runs) = 1)
    /\ ~HasIgnoredPrefix(branch) /\ head > 0 => runs.push = 1

\* C3, amended: a push to a branch with one of the listed prefixes triggers no
\* run through the push event, and exactly one run, through pull_request, when
\* the branch is the head of exactly one open pull request; a push to any
\* other branch triggers one run through the push event.
C3_PushFilter ==
    last.op \in {"push", "queue"} =>
        /\ HasIgnoredPrefix(branch) =>
              /\ last.push = 0
              /\ (last.op = "push" /\ last.prs = 1 =>
                     /\ last.pull_request = 1
                     /\ TotalRuns(last) = 1)
        /\ ~HasIgnoredPrefix(branch) => last.push = 1

\* C3, the case: a commit was pushed to a branch with a listed prefix that is
\* the head of one open pull request.
C3_PushToTicketBranchWithPR ==
    /\ last.op = "push"
    /\ HasIgnoredPrefix(branch)
    /\ last.prs = 1
    /\ TotalRuns(last) = 1

\* C4: make clean leaves every file of the repository as it was: present
\* and unchanged.
C4_CleanKeepsSourceFiles ==
    [][Clean => \A p \in SourceFiles : tree'[p] = tree[p] /\ tree'[p] # "absent"]_vars

\* C5: after make linkcheck, if sphinx-build failed, the contents of
\* docs/_build/linkcheck/output.txt (when the file exists) were printed and
\* the recipe ended with status 1, make failing; if sphinx-build succeeded,
\* nothing of output.txt was printed and the target succeeded.
C5_LinkcheckStatus ==
    made.target = "linkcheck" =>
        /\ made.sphinx # 0 =>
              /\ made.status = 1
              /\ made.exit # 0
              /\ made.printed = IF tree[OutputTxt] = "absent"
                                THEN <<>> ELSE <<tree[OutputTxt]>>
        /\ made.sphinx = 0 =>
              /\ made.status = 0
              /\ made.exit = 0
              /\ made.printed = <<>>

\* C5, the case: sphinx-build failed and output.txt was printed.
C5_LinkcheckFailedAndPrinted ==
    /\ made.target = "linkcheck"
    /\ made.sphinx # 0
    /\ made.printed = <<"broken links">>
    /\ made.status = 1

Covered(ra, dec) ==
    /\ 0 <= ra /\ ra <= 3 * PatchWidth
    /\ -9 <= dec /\ dec <= 2 * PatchWidth - 9

\* Within EdgeMargin of a patch border (the borders lie on a grid).
NearBorder(ra, dec) ==
    LET off(v) == Min2(v % PatchWidth, PatchWidth - (v % PatchWidth))
    IN off(ra) < EdgeMargin \/ off(dec + 9) < EdgeMargin

====
